---- MODULE Spec2Model ----
(***************************************************************************)
(* OCReceipt: payment-receipt screenshot -> OCR text -> LLM-structured     *)
(* record -> JSON history file.                                            *)
(*                                                                         *)
(* The repository holds two variants of the pipeline:                      *)
(*   - main.py: the Streamlit application, with its own OCR, structuring   *)
(*     and save functions (names prefixed main_ below);                    *)
(*   - preprocess.py / extract_and_parse.py / save_to_json.py: the         *)
(*     modular functions (names as in the source).                         *)
(*                                                                         *)
(* Every operation is modelled as an operator computing what the function  *)
(* returns, the external calls it makes in order, and the state it leaves; *)
(* one action per operation applies it.                                    *)
(***************************************************************************)
EXTENDS Integers, Sequences, FiniteSets, TLC

VARIABLES
    _reader,     \* extract_and_parse.py:27, the cached easyocr.Reader or None
    file,        \* the history file: Missing, or its content
    ctor_count,  \* easyocr.Reader objects constructed so far in this process
    calls,       \* operations invoked so far in this process
    op,          \* the last operation invoked ("init" before the first)
    inp,         \* its arguments and the environment's answers during it
    out,         \* what it returned (or raised)
    trace        \* the external calls it made, in order

vars == <<_reader, file, ctor_count, calls, op, inp, out, trace>>

None == [t |-> "None"]

\* an external call made by an operation: what was called, on what, and
\* whether it came back (ok) or raised
Ev(call, arg, ok) == [call |-> call, arg |-> arg, ok |-> ok]

\* the history file does not exist
Missing == [kind |-> "missing"]

\* a fresh process, before any operation
Idle ==
    /\ _reader = None
    /\ file = Missing
    /\ ctor_count = 0
    /\ calls = 0
    /\ op = "init"
    /\ out = None
    /\ trace = <<>>

(***************************************************************************)
(* Bounds.                                                                 *)
(***************************************************************************)
MaxPixels == 3    \* pixels of a raster
MaxHistory == 2   \* records in the history file before the first save
MaxSaves == 3     \* save_to_json calls in a row
MaxCalls == 3     \* OCR calls and application runs in one process

(***************************************************************************)
(* Helpers.                                                                *)
(***************************************************************************)
RECURSIVE SumSeq(_)
SumSeq(s) == IF s = <<>> THEN 0 ELSE Head(s) + SumSeq(Tail(s))

SeqsUpTo(S, n) == UNION { [1..k -> S] : k \in 1..n }

Range(s) == { s[i] : i \in DOMAIN s }

\* < written as <=
RatLe(r, k) == r.num <= k * r.den

\* A rational num/den (den > 0) compared with an integer.
RatLt(r, k) == r.num < k * r.den
RatGt(r, k) == r.num > k * r.den

(***************************************************************************)
(* Images.  A decoded raster is a row of intensities; a processed raster   *)
(* is identified by the raster it came from and the OpenCV operations      *)
(* applied to it, in order (the metrics are only ever taken of the decoded *)
(* raster, so the pixel values of processed rasters are never needed).     *)
(* The decoded colour raster is taken to have B = G = R, so that its       *)
(* grayscale conversion has the same intensities.                          *)
(***************************************************************************)
\* (80, 85 side by side have a Laplacian variance of exactly 100)
PixelValues == {29, 30, 80, 85, 130, 179, 180, 230, 231}

Rasters == SeqsUpTo(PixelValues, MaxPixels)

\* image bytes: a zero-byte buffer, bytes in no image format, or an encoding
EmptyBytes   == [kind |-> "empty", px |-> <<>>]
CorruptBytes == [kind |-> "corrupt", px |-> <<>>]
Encode(px)   == [kind |-> "image", px |-> px]

Raster(px)    == [px |-> px, ops |-> <<>>]
Apply(img, o) == [px |-> img.px, ops |-> Append(img.ops, o)]

\* cv2.imdecode: None when the buffer cannot be decoded
imdecode(image_bytes) ==
    IF image_bytes.kind = "image" THEN Raster(image_bytes.px) ELSE None

\* cv2.Laplacian(gray, CV_64F), aperture 1, BORDER_REFLECT_101, on a row:
\* the rows above and below reflect onto the row itself
Laplacian(px) ==
    LET n == Len(px)
        left(i)  == IF n = 1 THEN px[i] ELSE IF i = 1 THEN px[2] ELSE px[i - 1]
        right(i) == IF n = 1 THEN px[i] ELSE IF i = n THEN px[n - 1] ELSE px[i + 1]
    IN  [i \in 1..n |-> left(i) + right(i) + 2 * px[i] - 4 * px[i]]

Mean(s) == [num |-> SumSeq(s), den |-> Len(s)]

\* np.var: mean of the squares minus the square of the mean
Variance(s) ==
    LET n == Len(s)
        q == [i \in 1..n |-> s[i] * s[i]]
    IN  [num |-> n * SumSeq(q) - SumSeq(s) * SumSeq(s), den |-> n * n]

\* analyze_image_quality with the lower brightness bound made inclusive
analyze_image_quality_inclusive(image) ==
    LET gray       == image.px
        brightness == Mean(gray)
        contrast2  == Variance(gray)
    IN  [brightness  |-> brightness,
         contrast2   |-> contrast2,
         noise_level |-> Variance(Laplacian(gray)),
         is_binary   |-> Cardinality(Range(gray)) < 20,
         needs_enhancement |->
             \/ RatLt(contrast2, 50 * 50)
             \/ ~RatGt(brightness, 80)
             \/ RatGt(brightness, 180)]

\* preprocess.py:5-33.  contrast is np.std(gray); it is kept as its square
\* (the variance) and compared with the square of the threshold.
analyze_image_quality(image) ==
    LET gray       == image.px
        brightness == Mean(gray)
        contrast2  == Variance(gray)
    IN  [brightness  |-> brightness,
         contrast2   |-> contrast2,
         noise_level |-> Variance(Laplacian(gray)),
         is_binary   |-> Cardinality(Range(gray)) < 20,
         needs_enhancement |->
             \/ RatLt(contrast2, 50 * 50)
             \/ RatLt(brightness, 80)
             \/ RatGt(brightness, 180)]

\* an entry of the steps dict (a dict keeps insertion order)
Step(name, img) == [name |-> name, img |-> img]

\* what a call gives back: a tuple, None (a function that falls off its end),
\* or an exception raised to the caller
Raised(exc) == [t |-> "raise", exc |-> exc]
Tuple(v)    == [t |-> "tuple", items |-> v]

\* the steps dict, in insertion order
Dict(entries) == [t |-> "dict", entries |-> entries]

\* preprocess_image that takes the closed image as the final one
preprocess_image_closed_final(image_bytes, debug) ==
    LET image == imdecode(image_bytes)
    IN  IF image = None
        THEN \* image.copy() (debug) or image.shape (analysis) on None; an
             \* empty buffer makes cv2.imdecode itself raise
             Raised(IF image_bytes.kind = "empty" THEN "cv2.error"
                                                  ELSE "AttributeError")
        ELSE
        LET steps0   == IF debug THEN <<Step("original", image)>> ELSE <<>>
            quality  == analyze_image_quality(image)
            gray0    == Apply(image, "cvtColor")
            steps1   == IF debug THEN Append(steps0, Step("grayscale", gray0))
                                 ELSE steps0
            noisy    == RatLt(quality.noise_level, 100)
            denoised == Apply(gray0, "bilateralFilter")
            steps2   == IF noisy /\ debug
                        THEN Append(steps1, Step("denoised", denoised))
                        ELSE steps1
            gray1    == IF noisy THEN denoised ELSE gray0
            enhanced == Apply(gray1, "CLAHE")
            steps3   == IF quality.needs_enhancement /\ debug
                        THEN Append(steps2, Step("contrast_enhanced", enhanced))
                        ELSE steps2
            gray2    == IF quality.needs_enhancement THEN enhanced ELSE gray1
            binary   == Apply(gray2, "adaptiveThreshold")
            steps4   == IF debug THEN Append(steps3, Step("binary", binary))
                                 ELSE steps3
            morphed  == Apply(binary, "morphologyEx")
            steps5   == IF debug THEN Append(steps4, Step("morphological", morphed))
                                 ELSE steps4
            final_image == Apply(morphed, "Image.fromarray")
        IN  IF debug
            THEN Tuple(<<final_image, Dict(Append(steps5, Step("final", morphed)))>>)
            ELSE Tuple(<<final_image, None>>)

\* preprocess.py:35-107
preprocess_image(image_bytes, debug) ==
    LET image == imdecode(image_bytes)
    IN  IF image = None
        THEN \* image.copy() (debug) or image.shape (analysis) on None; an
             \* empty buffer makes cv2.imdecode itself raise
             Raised(IF image_bytes.kind = "empty" THEN "cv2.error"
                                                  ELSE "AttributeError")
        ELSE
        LET steps0   == IF debug THEN <<Step("original", image)>> ELSE <<>>
            quality  == analyze_image_quality(image)
            gray0    == Apply(image, "cvtColor")
            steps1   == IF debug THEN Append(steps0, Step("grayscale", gray0))
                                 ELSE steps0
            noisy    == RatLt(quality.noise_level, 100)
            denoised == Apply(gray0, "bilateralFilter")
            steps2   == IF noisy /\ debug
                        THEN Append(steps1, Step("denoised", denoised))
                        ELSE steps1
            gray1    == IF noisy THEN denoised ELSE gray0
            enhanced == Apply(gray1, "CLAHE")
            steps3   == IF quality.needs_enhancement /\ debug
                        THEN Append(steps2, Step("contrast_enhanced", enhanced))
                        ELSE steps2
            gray2    == IF quality.needs_enhancement THEN enhanced ELSE gray1
            binary   == Apply(gray2, "adaptiveThreshold")
            steps4   == IF debug THEN Append(steps3, Step("binary", binary))
                                 ELSE steps3
            morphed  == Apply(binary, "morphologyEx")
            steps5   == IF debug THEN Append(steps4, Step("morphological", morphed))
                                 ELSE steps4
            final_image == Apply(binary, "Image.fromarray")
        IN  IF debug
            THEN Tuple(<<final_image, Dict(Append(steps5, Step("final", binary)))>>)
            ELSE Tuple(<<final_image, None>>)

(***************************************************************************)
(* LLM responses.  The response text is a sequence of tokens: a ``` fence, *)
(* the language tag json, whitespace, prose, or the text of one JSON       *)
(* document.  A parsed JSON value is None (null), a string, an integer, a  *)
(* nested object, or an object/array at top level.                         *)
(***************************************************************************)
Fence   == [t |-> "fence"]
Tag     == [t |-> "tag"]
Ws      == [t |-> "ws"]
Prose   == [t |-> "prose"]
Doc(v)  == [t |-> "doc", v |-> v]

PyStrV(s) == [t |-> "str", s |-> s]
PyInt(n)  == [t |-> "int", n |-> n]
PyDict    == [t |-> "dict"]          \* the nested object {"value": 1500}
PyList    == [t |-> "list"]          \* the array [1500]
PyObj(m)  == [t |-> "object", m |-> m]

\* Python's str()
str(v) ==
    CASE v.t = "str"  -> v.s
      [] v.t = "int"  -> ToString(v.n)
      [] v.t = "dict" -> "{'value': 1500}"
      [] v.t = "list" -> "[1500]"
      [] OTHER        -> "None"

\* extract_and_parse.py:93-108
SchemaFields ==
    <<"transaction_status", "sender_name", "sender_account", "recipient_name",
      "recipient_account", "amount", "currency", "transaction_date",
      "transaction_time", "transaction_id", "payment_method", "bank_name",
      "notes", "fee", "any_other_details">>

MetaFields == {"extraction_timestamp", "raw_ocr_text"}

\* str.strip()
RECURSIVE lstrip(_)
lstrip(s) == IF s # <<>> /\ Head(s) = Ws THEN lstrip(Tail(s)) ELSE s

RECURSIVE rstrip(_)
rstrip(s) ==
    IF s # <<>> /\ s[Len(s)] = Ws THEN rstrip(SubSeq(s, 1, Len(s) - 1)) ELSE s

strip(s) == rstrip(lstrip(s))

startswith(s, prefix) ==
    Len(s) >= Len(prefix) /\ SubSeq(s, 1, Len(prefix)) = prefix

endswith(s, suffix) ==
    Len(s) >= Len(suffix) /\ SubSeq(s, Len(s) - Len(suffix) + 1, Len(s)) = suffix

JSONDecodeError == [t |-> "JSONDecodeError"]

\* json.loads: surrounding whitespace is allowed, anything else around the
\* document (or no document) is a JSONDecodeError
json_loads(s) ==
    LET body == strip(s)
    IN  IF Len(body) = 1 /\ body[1].t = "doc" THEN body[1].v ELSE JSONDecodeError

\* TransactionData(**transaction_data).model_dump(): extra keys are ignored,
\* missing fields default to None, a field that is neither a str nor None is
\* a ValidationError (pydantic does not turn a number into a str)
ValidationError == [t |-> "ValidationError"]

TransactionData_lax(m) ==
    [k \in Range(SchemaFields) |-> IF k \in DOMAIN m THEN m[k] ELSE None]

TransactionData(m) ==
    IF \E k \in Range(SchemaFields) \cap DOMAIN m : m[k].t \notin {"str", "None"}
    THEN ValidationError
    ELSE [k \in Range(SchemaFields) |-> IF k \in DOMAIN m THEN m[k] ELSE None]

\* extract_and_parse.py:164-166
coerce_amount_fee(m) ==
    [k \in DOMAIN m |->
        IF k \in {"amount", "fee"} /\ m[k] # None THEN PyStrV(str(m[k])) ELSE m[k]]

\* what client.chat.completions.create answers: an exception, or the content
LlmRaises    == [raises |-> TRUE, content |-> <<>>]
LlmAnswers(c) == [raises |-> FALSE, content |-> c]

\* the completion call: the OCR text put in the prompt, and the answer
LlmCall(ocr_text, llm) ==
    Ev("chat.completions.create",
       [ocr_text |-> ocr_text, content |-> llm.content], ~llm.raises)

\* an error message, by its fixed prefix
Err(prefix) == [t |-> "error", prefix |-> prefix]

\* extract_and_parse.py:111-182
parse_with_llm(llm, ocr_text, now) ==
    IF llm = LlmRaises THEN <<None, Err("Error parsing with LLM")>> ELSE
    LET transaction_data == json_loads(llm.content) IN
    IF transaction_data = JSONDecodeError
    THEN <<None, Err("Failed to parse JSON response")>>
    ELSE IF transaction_data.t # "object"
    THEN \* "amount" in 1500, or TransactionData(**[...]): TypeError
         <<None, Err("Error parsing with LLM")>>
    ELSE
    LET validated_data == TransactionData(coerce_amount_fee(transaction_data.m)) IN
    IF validated_data = ValidationError
    THEN <<None, Err("Error parsing with LLM")>>
    ELSE <<PyObj([k \in Range(SchemaFields) \cup MetaFields |->
                    CASE k = "extraction_timestamp" -> PyStrV(now)
                      [] k = "raw_ocr_text"         -> PyStrV(ocr_text)
                      [] OTHER                      -> validated_data[k]]),
           None>>

\* main.py:99-107
strip_fences(result0) ==
    LET r1 == strip(result0)
        r2 == IF startswith(r1, <<Fence, Tag>>) THEN SubSeq(r1, 3, Len(r1)) ELSE r1
        r3 == IF startswith(r2, <<Fence>>) THEN SubSeq(r2, 2, Len(r2)) ELSE r2
        r4 == IF endswith(r3, <<Fence>>) THEN SubSeq(r3, 1, Len(r3) - 1) ELSE r3
    IN  strip(r4)

\* main.py:56-118
main_parse_with_llm(llm, ocr_text, now) ==
    IF llm = LlmRaises THEN <<None, Err("Error parsing with LLM")>> ELSE
    LET transaction_data == json_loads(strip_fences(llm.content)) IN
    IF transaction_data = JSONDecodeError
    THEN <<None, Err("Failed to parse JSON response")>>
    ELSE IF transaction_data.t # "object"
    THEN \* item assignment on a list or an int: TypeError
         <<None, Err("Error parsing with LLM")>>
    ELSE <<PyObj([k \in DOMAIN transaction_data.m \cup MetaFields |->
                    CASE k = "extraction_timestamp" -> PyStrV(now)
                      [] k = "raw_ocr_text"         -> PyStrV(ocr_text)
                      [] OTHER                      -> transaction_data.m[k]]),
           None>>

(***************************************************************************)
(* Specification SpecLLM: both structuring functions on every response.    *)
(***************************************************************************)
ObjKeys == {"amount", "fee", "notes", "extra_key"}

JsonScalars == {None, PyStrV("1,500"), PyInt(1500), PyDict}

JsonObjects ==
    UNION { { PyObj(m) : m \in [ks -> JsonScalars] } : ks \in SUBSET ObjKeys }

JsonDocs == JsonObjects \cup {PyList, PyInt(1500)}

Fenced(d)     == <<Fence, Ws, Doc(d), Ws, Fence>>
FencedJson(d) == <<Fence, Tag, Ws, Doc(d), Ws, Fence>>

Responses ==
    UNION { { <<Doc(d)>>, <<Ws, Doc(d), Ws>>, Fenced(d), FencedJson(d),
              <<Prose, Doc(d)>> } : d \in JsonDocs }
    \cup { <<>>, <<Prose>>, <<Fence, Tag, Ws, Prose, Ws, Fence>> }

OcrTexts == {"", "Rs 1,500 sent to Ali Khan"}

Now == "2025-01-01T00:00:00"

LlmInputs ==
    { [llm |-> r, ocr_text |-> t, now |-> Now] :
        r \in {LlmRaises} \cup { LlmAnswers(c) : c \in Responses },
        t \in OcrTexts }

InitLLM == Idle /\ inp \in LlmInputs

ParseWithLlm ==
    /\ op = "init"
    /\ op' = "parse_with_llm"
    /\ out' = Tuple(parse_with_llm(inp.llm, inp.ocr_text, inp.now))
    /\ calls' = calls + 1
    /\ trace' = <<LlmCall(inp.ocr_text, inp.llm)>>
    /\ UNCHANGED <<_reader, file, ctor_count, inp>>

MainParseWithLlm ==
    /\ op = "init"
    /\ op' = "main_parse_with_llm"
    /\ out' = Tuple(main_parse_with_llm(inp.llm, inp.ocr_text, inp.now))
    /\ calls' = calls + 1
    /\ trace' = <<LlmCall(inp.ocr_text, inp.llm)>>
    /\ UNCHANGED <<_reader, file, ctor_count, inp>>

NextLLM == ParseWithLlm \/ MainParseWithLlm

SpecLLM == InitLLM /\ [][NextLLM]_vars

(***************************************************************************)
(* The history file.  Its content is a JSON array (the items, and whether  *)
(* the text is laid out as json.dump(indent=2) lays it out), some other    *)
(* JSON value, text that is not JSON, or what an interrupted json.dump     *)
(* left behind (the opening of an array and the items written so far).     *)
(***************************************************************************)
ArrayFile(items, indent2) == [kind |-> "array", items |-> items, indent2 |-> indent2]
ObjectFile       == [kind |-> "object"]
CorruptFile      == [kind |-> "corrupt"]
PartialFile(items) == [kind |-> "partial", items |-> items]

\* a value json.dump cannot serialize (a numpy array, a datetime)
Unserializable == [t |-> "ndarray"]

\* json.load(f): the value, without the layout of the text
json_load(f) ==
    CASE f.kind = "array"  -> [t |-> "list", items |-> f.items]
      [] f.kind = "object" -> PyDict
      [] OTHER             -> JSONDecodeError

\* json.dump(existing_data, f, indent=2) into the file just truncated by
\* open(filename, 'w'): the items are written one after the other, and a
\* value that cannot be serialized raises after the ones before it are out
json_dump(items) ==
    IF \E i \in DOMAIN items : items[i] = Unserializable
    THEN PartialFile(SubSeq(items, 1,
             (CHOOSE i \in DOMAIN items :
                 /\ items[i] = Unserializable
                 /\ \A j \in 1..(i - 1) : items[j] # Unserializable) - 1))
    ELSE ArrayFile(items, TRUE)

Filename == "transactions.json"

\* save_to_json that writes the new record alone
save_to_json_overwrite(data, f, writable) ==
    [out |-> Tuple(<<TRUE, PyStrV(Filename)>>), file |-> json_dump(<<data>>)]

\* save_to_json.py:5-23.  f is the file as the call finds it, writable
\* whether open(filename, 'w') succeeds; the result is the returned pair and
\* the file as the call leaves it.
save_to_json(data, f, writable) ==
    LET existing_data == IF f # Missing THEN json_load(f)
                                         ELSE [t |-> "list", items |-> <<>>]
    IN  IF existing_data = JSONDecodeError
        THEN [out |-> Tuple(<<FALSE, PyStrV("JSONDecodeError")>>), file |-> f]
        ELSE IF existing_data.t # "list"
        THEN \* 'dict' object has no attribute 'append'
             [out |-> Tuple(<<FALSE, PyStrV("AttributeError")>>), file |-> f]
        ELSE IF ~writable
        THEN [out |-> Tuple(<<FALSE, PyStrV("PermissionError")>>), file |-> f]
        ELSE
        LET written == json_dump(Append(existing_data.items, data))
        IN  IF written.kind = "partial"
            THEN [out |-> Tuple(<<FALSE, PyStrV("TypeError")>>), file |-> written]
            ELSE [out |-> Tuple(<<TRUE, PyStrV(Filename)>>), file |-> written]

\* main.py:121-139, the same function in the application
main_save_to_json(data, f, writable) ==
    LET existing_data == IF f # Missing THEN json_load(f)
                                         ELSE [t |-> "list", items |-> <<>>]
    IN  IF existing_data = JSONDecodeError
        THEN [out |-> Tuple(<<FALSE, PyStrV("JSONDecodeError")>>), file |-> f]
        ELSE IF existing_data.t # "list"
        THEN [out |-> Tuple(<<FALSE, PyStrV("AttributeError")>>), file |-> f]
        ELSE IF ~writable
        THEN [out |-> Tuple(<<FALSE, PyStrV("PermissionError")>>), file |-> f]
        ELSE
        LET written == json_dump(Append(existing_data.items, data))
        IN  IF written.kind = "partial"
            THEN [out |-> Tuple(<<FALSE, PyStrV("TypeError")>>), file |-> written]
            ELSE [out |-> Tuple(<<TRUE, PyStrV(Filename)>>), file |-> written]

(***************************************************************************)
(* OCR.  env holds what the outside world answers during one operation:    *)
(*   ctor_ok   whether easyocr.Reader(...) comes back (it loads models)     *)
(*   readtext  [raises, text]: reader.readtext raises, or finds fragments   *)
(*             whose newline-joined, stripped text is text                  *)
(*   client    whether GROQ_API_KEY is set, so that init_groq gives a client*)
(*   llm       what client.chat.completions.create answers                  *)
(*   writable  whether the history file can be opened for writing           *)
(* An operation's result: what it returns, the external calls it made, the *)
(* module global _reader as it leaves it, and the Readers it constructed.  *)
(* (extract_and_parse.py:10-24 defines extract_text_easyocr a first time;  *)
(* the definition at line 35 rebinds the name, so the first is never run.) *)
(***************************************************************************)
Result(o, tr, rd, built) == [out |-> o, trace |-> tr, reader |-> rd, built |-> built]

Reader(n) == [t |-> "Reader", id |-> n]

\* Image.open(io.BytesIO(image_bytes)).convert("RGB") as a numpy array: the
\* raster as decoded, or None when PIL cannot identify the image (it raises)
pil_open(image_bytes) ==
    IF image_bytes.kind = "image" THEN Raster(image_bytes.px) ELSE None

OcrError == Err("OCR Error")

\* extract_and_parse.py:26-33.  n Readers were built before.
get_reader(rd, n, env) ==
    IF rd # None THEN Result(rd, <<>>, rd, 0)
    ELSE IF env.ctor_ok
    THEN Result(Reader(n + 1), <<Ev("easyocr.Reader", None, TRUE)>>, Reader(n + 1), 1)
    ELSE Result(Raised("Exception"), <<Ev("easyocr.Reader", None, FALSE)>>, rd, 0)

\* reader.readtext(image), then the join and the strip
readtext(image, env) ==
    [ev   |-> Ev("readtext", image, ~env.readtext.raises),
     text |-> IF env.readtext.raises THEN None ELSE PyStrV(env.readtext.text)]

\* extract_and_parse.py:35-62
extract_text_easyocr(image_bytes, use_preprocessing, rd, n, env) ==
    LET g == get_reader(rd, n, env) IN
    IF g.out.t = "raise"
    THEN Result(Tuple(<<None, OcrError>>), g.trace, g.reader, g.built)
    ELSE
    LET image == pil_open(image_bytes) IN
    IF image = None
    THEN Result(Tuple(<<None, OcrError>>), g.trace, g.reader, g.built)
    ELSE
    LET r == readtext(image, env) IN
    IF r.text = None
    THEN Result(Tuple(<<None, OcrError>>), Append(g.trace, r.ev), g.reader, g.built)
    ELSE Result(Tuple(<<r.text, None>>), Append(g.trace, r.ev), g.reader, g.built)

\* extract_and_parse.py:64-87
extract_text_easyocr_with_debug(image_bytes, rd, n, env) ==
    LET g == get_reader(rd, n, env) IN
    IF g.out.t = "raise"
    THEN Result(Tuple(<<None, None, OcrError>>), g.trace, g.reader, g.built)
    ELSE
    LET pre == preprocess_image(image_bytes, TRUE)
        tr1 == Append(g.trace, Ev("preprocess_image", image_bytes, pre.t # "raise"))
    IN
    IF pre.t = "raise"
    THEN Result(Tuple(<<None, None, OcrError>>), tr1, g.reader, g.built)
    ELSE
    LET steps == pre.items[2]
        image == pil_open(image_bytes)
    IN
    IF image = None
    THEN Result(Tuple(<<None, None, OcrError>>), tr1, g.reader, g.built)
    ELSE
    LET r == readtext(image, env) IN
    IF r.text = None
    THEN Result(Tuple(<<None, None, OcrError>>), Append(tr1, r.ev), g.reader, g.built)
    ELSE Result(Tuple(<<r.text, steps, None>>), Append(tr1, r.ev), g.reader, g.built)

\* main.py:38-53: a Reader of its own on every call, never cached
main_extract_text_easyocr(image_bytes, rd, n, env) ==
    IF ~env.ctor_ok
    THEN Result(Tuple(<<None, OcrError>>),
                <<Ev("easyocr.Reader", None, FALSE)>>, rd, 0)
    ELSE
    LET tr0   == <<Ev("easyocr.Reader", None, TRUE)>>
        image == pil_open(image_bytes)
    IN
    IF image = None
    THEN Result(Tuple(<<None, OcrError>>), tr0, rd, 1)
    ELSE
    LET r == readtext(image, env) IN
    IF r.text = None
    THEN Result(Tuple(<<None, OcrError>>), Append(tr0, r.ev), rd, 1)
    ELSE Result(Tuple(<<r.text, None>>), Append(tr0, r.ev), rd, 1)

\* main.py:26-36: the OCR call is commented out, so when the image opens the
\* function falls off its end and returns None
extract_text_tesseract(image_bytes, rd) ==
    IF pil_open(image_bytes) = None
    THEN Result(Tuple(<<None, OcrError>>), <<>>, rd, 0)
    ELSE Result(None, <<>>, rd, 0)

(***************************************************************************)
(* The application: main.py:213-265, what one press of "Extract & Parse"   *)
(* does with the uploaded bytes.  The result is what the page shows, the   *)
(* calls made, and the history file as the run leaves it.                  *)
(***************************************************************************)
Page(status, ocr, parse, save) ==
    [t |-> "page", status |-> status, ocr |-> ocr, parse |-> parse, save |-> save]

Outcome(page, tr, f, built) == [out |-> page, trace |-> tr, file |-> f, built |-> built]

\* main that saves whatever the structuring step returned
main_ignoring_parse_error(image_bytes, ocr_engine, f, rd, n, env) ==
    LET ocr == IF ocr_engine = "EasyOCR"
               THEN main_extract_text_easyocr(image_bytes, rd, n, env)
               ELSE extract_text_tesseract(image_bytes, rd)
    IN
    IF ocr.out = None THEN Outcome(Raised("TypeError"), ocr.trace, f, ocr.built)
    ELSE IF ocr.out.items[2] # None
    THEN Outcome(Page("ocr_error", ocr.out, None, None), ocr.trace, f, ocr.built)
    ELSE IF ~env.client
    THEN Outcome(Page("no_client", ocr.out, None, None), ocr.trace, f, ocr.built)
    ELSE
    LET ocr_text == ocr.out.items[1].s
        parse    == main_parse_with_llm(env.llm, ocr_text, env.now)
        tr1      == Append(ocr.trace, LlmCall(ocr_text, env.llm))
        save == main_save_to_json(parse[1], f, env.writable)
        tr2  == Append(tr1, Ev("save_to_json", parse[1], save.out.items[1]))
    IN  Outcome(Page(IF save.out.items[1] THEN "saved" ELSE "save_failed",
                     ocr.out, Tuple(parse), save.out),
                tr2, save.file, ocr.built)

main(image_bytes, ocr_engine, f, rd, n, env) ==
    LET ocr == IF ocr_engine = "EasyOCR"
               THEN main_extract_text_easyocr(image_bytes, rd, n, env)
               ELSE extract_text_tesseract(image_bytes, rd)
    IN
    IF ocr.out = None
    THEN \* ocr_text, ocr_error = None: cannot unpack, the run ends in a TypeError
         Outcome(Raised("TypeError"), ocr.trace, f, ocr.built)
    ELSE IF ocr.out.items[2] # None
    THEN Outcome(Page("ocr_error", ocr.out, None, None), ocr.trace, f, ocr.built)
    ELSE IF ~env.client
    THEN Outcome(Page("no_client", ocr.out, None, None), ocr.trace, f, ocr.built)
    ELSE
    LET ocr_text == ocr.out.items[1].s
        parse    == main_parse_with_llm(env.llm, ocr_text, env.now)
        tr1      == Append(ocr.trace, LlmCall(ocr_text, env.llm))
    IN
    IF parse[2] # None
    THEN Outcome(Page("parse_error", ocr.out, Tuple(parse), None), tr1, f, ocr.built)
    ELSE
    LET save == main_save_to_json(parse[1], f, env.writable)
        tr2  == Append(tr1, Ev("save_to_json", parse[1], save.out.items[1]))
    IN  Outcome(Page(IF save.out.items[1] THEN "saved" ELSE "save_failed",
                     ocr.out, Tuple(parse), save.out),
                tr2, save.file, ocr.built)

(***************************************************************************)
(* Specification Spec: one process, any sequence of OCR calls and          *)
(* application runs.                                                       *)
(***************************************************************************)
SpecBytes == {EmptyBytes, CorruptBytes, Encode(<<30, 130>>), Encode(<<80, 80, 80>>)}

ReceiptObject == PyObj([amount |-> PyInt(1500), notes |-> None])

SpecLlm ==
    {LlmRaises}
    \cup { LlmAnswers(c) : c \in { <<Prose>>, <<Doc(ReceiptObject)>>,
                                    FencedJson(ReceiptObject), <<Doc(PyList)>> } }

ReadtextAnswers ==
    { [raises |-> TRUE, text |-> ""], [raises |-> FALSE, text |-> ""],
      [raises |-> FALSE, text |-> "Rs 1,500 sent to Ali Khan"] }

\* what the OCR functions meet
OcrEnvs == { [ctor_ok |-> c, readtext |-> r] : c \in BOOLEAN, r \in ReadtextAnswers }

\* what an application run meets
Envs ==
    { [ctor_ok |-> c, readtext |-> r, client |-> k, llm |-> l, writable |-> w,
       now |-> Now] :
        c \in BOOLEAN, r \in ReadtextAnswers,
        k \in BOOLEAN, l \in SpecLlm, w \in BOOLEAN }

Init == Idle /\ inp = None

\* the bookkeeping every OCR call shares
OcrCall(name, image_bytes, r) ==
    /\ op' = name
    /\ inp' = [image_bytes |-> image_bytes, existing |-> file]
    /\ out' = r.out
    /\ trace' = r.trace
    /\ _reader' = r.reader
    /\ ctor_count' = ctor_count + r.built
    /\ calls' = calls + 1
    /\ UNCHANGED file

ExtractTextEasyocr(image_bytes, use_preprocessing, env) ==
    /\ calls < MaxCalls
    /\ OcrCall("extract_text_easyocr", image_bytes,
               extract_text_easyocr(image_bytes, use_preprocessing,
                                    _reader, ctor_count, env))

ExtractTextEasyocrWithDebug(image_bytes, env) ==
    /\ calls < MaxCalls
    /\ OcrCall("extract_text_easyocr_with_debug", image_bytes,
               extract_text_easyocr_with_debug(image_bytes, _reader, ctor_count, env))

MainExtractTextEasyocr(image_bytes, env) ==
    /\ calls < MaxCalls
    /\ OcrCall("main_extract_text_easyocr", image_bytes,
               main_extract_text_easyocr(image_bytes, _reader, ctor_count, env))

ExtractTextTesseract(image_bytes) ==
    /\ calls < MaxCalls
    /\ OcrCall("extract_text_tesseract", image_bytes,
               extract_text_tesseract(image_bytes, _reader))

PreprocessCall(image_bytes, debug) ==
    /\ calls < MaxCalls
    /\ OcrCall("preprocess_image", image_bytes,
               Result(preprocess_image(image_bytes, debug), <<>>, _reader, 0))

Main(image_bytes, ocr_engine, env) ==
    /\ calls < MaxCalls
    /\ LET r == main(image_bytes, ocr_engine, file, _reader, ctor_count, env)
       IN  /\ out' = r.out
           /\ trace' = r.trace
           /\ file' = r.file
           /\ ctor_count' = ctor_count + r.built
    /\ op' = "main"
    /\ inp' = [image_bytes |-> image_bytes, existing |-> file]
    /\ calls' = calls + 1
    /\ UNCHANGED _reader

Next ==
    \E image_bytes \in SpecBytes :
        \/ \E env \in OcrEnvs, use_preprocessing \in BOOLEAN :
               ExtractTextEasyocr(image_bytes, use_preprocessing, env)
        \/ \E env \in OcrEnvs : ExtractTextEasyocrWithDebug(image_bytes, env)
        \/ \E env \in OcrEnvs : MainExtractTextEasyocr(image_bytes, env)
        \/ ExtractTextTesseract(image_bytes)
        \/ \E debug \in BOOLEAN : PreprocessCall(image_bytes, debug)
        \/ \E env \in Envs, ocr_engine \in {"Tesseract", "EasyOCR"} :
               Main(image_bytes, ocr_engine, env)

Spec == Init /\ [][Next]_vars

(***************************************************************************)
(* Specification SpecSave: any sequence of save_to_json calls on a file    *)
(* that starts missing, as an array in any layout, or unusable.            *)
(***************************************************************************)
RecordA == PyObj([amount |-> PyStrV("1500"), notes |-> None])
RecordB == PyObj([amount |-> PyInt(1500)])

SaveData == {RecordA, RecordB, Unserializable}

InitialFiles ==
    {Missing, ObjectFile, CorruptFile}
    \cup { ArrayFile(items, l) :
             items \in {<<>>} \cup SeqsUpTo({RecordA, RecordB}, MaxHistory),
             l \in BOOLEAN }

InitSave ==
    /\ _reader = None
    /\ file \in InitialFiles
    /\ ctor_count = 0
    /\ calls = 0
    /\ op = "init"
    /\ inp = None
    /\ out = None
    /\ trace = <<>>

SaveToJson(data, writable) ==
    /\ calls < MaxSaves
    /\ LET r == save_to_json(data, file, writable)
       IN  /\ out' = r.out
           /\ file' = r.file
    /\ op' = "save_to_json"
    /\ inp' = [data |-> data, existing |-> file]
    /\ calls' = calls + 1
    /\ UNCHANGED <<_reader, ctor_count, trace>>

MainSaveToJson(data, writable) ==
    /\ calls < MaxSaves
    /\ LET r == main_save_to_json(data, file, writable)
       IN  /\ out' = r.out
           /\ file' = r.file
    /\ op' = "main_save_to_json"
    /\ inp' = [data |-> data, existing |-> file]
    /\ calls' = calls + 1
    /\ UNCHANGED <<_reader, ctor_count, trace>>

NextSave ==
    \E data \in SaveData, writable \in BOOLEAN :
        \/ SaveToJson(data, writable)
        \/ MainSaveToJson(data, writable)

SpecSave == InitSave /\ [][NextSave]_vars

SaveOps == {"save_to_json", "main_save_to_json"}

\* C9: a successful save_to_json on a file holding N records leaves an array of
\* N+1 records, the first N being the records the call found, unchanged and in
\* order, and the last the new record; a missing file counts as no records.
C9_AppendKeepsHistory ==
    (op \in SaveOps /\ out.items[1]) =>
        LET before == IF inp.existing = Missing THEN <<>> ELSE inp.existing.items
            N      == Len(before)
        IN  /\ inp.existing.kind \in {"missing", "array"}
            /\ file.kind = "array"
            /\ Len(file.items) = N + 1
            /\ SubSeq(file.items, 1, N) = before
            /\ file.items[N + 1] = inp.data

\* the third successful call in a row, on a file the call found with records
C9_Witness ==
    /\ op \in SaveOps
    /\ out.items[1]
    /\ calls = MaxSaves
    /\ Len(file.items) >= 3
    /\ inp.existing.kind = "array"
    /\ file.items[1] # file.items[2]

\* a first call created the file
C9_WitnessMissing ==
    /\ op \in SaveOps
    /\ out.items[1]
    /\ inp.existing = Missing
    /\ file = ArrayFile(<<inp.data>>, TRUE)

\* C13: whenever save_to_json returns failure, the history file holds exactly
\* what it held before the call.
C13_FailedSaveLeavesFile ==
    (op \in SaveOps /\ ~out.items[1]) => file = inp.existing

(***************************************************************************)
(* Specification SpecPre: preprocess_image on every input.                 *)
(***************************************************************************)
PreInputs ==
    { [image_bytes |-> b, debug |-> d] :
        b \in {EmptyBytes, CorruptBytes} \cup { Encode(px) : px \in Rasters },
        d \in BOOLEAN }

InitPre == Idle /\ inp \in PreInputs

PreprocessImage ==
    /\ op = "init"
    /\ op' = "preprocess_image"
    /\ out' = preprocess_image(inp.image_bytes, inp.debug)
    /\ calls' = calls + 1
    /\ UNCHANGED <<_reader, file, ctor_count, inp, trace>>

NextPre == PreprocessImage

SpecPre == InitPre /\ [][NextPre]_vars

StepNames(steps) == [i \in DOMAIN steps |-> steps[i].name]

PreDone == op = "preprocess_image" /\ out.t = "tuple"

\* C10: the contrast-enhancement stage runs exactly when the decoded image has
\* contrast < 50 or brightness < 80 or brightness > 180 (metrics of the image as
\* decoded, before any stage); with contrast >= 50 and brightness in [80,180]
\* it is skipped and the debug trace has no contrast_enhanced entry.
C10_EnhancementGate ==
    PreDone =>
        LET px   == inp.image_bytes.px
            n    == Len(px)
            s    == SumSeq(px)
            sq   == SumSeq([i \in 1..n |-> px[i] * px[i]])
            need == \/ n * sq - s * s < 2500 * n * n
                    \/ s < 80 * n
                    \/ s > 180 * n
            ran  == "CLAHE" \in Range(out.items[1].ops)
        IN  /\ ran <=> need
            /\ inp.debug =>
                 (("contrast_enhanced" \in Range(StepNames(out.items[2].entries))) <=> need)
            /\ ~inp.debug => out.items[2] = None

\* an image on the inclusive bounds (brightness 80 or 180, contrast 50) went
\* through with debug on and the stage was skipped
C10_Witness ==
    /\ PreDone
    /\ inp.debug
    /\ inp.image_bytes.px \in {<<30, 130>>, <<130, 230>>}
    /\ "contrast_enhanced" \notin Range(StepNames(out.items[2].entries))

\* every raster the call handed on: the returned image and the recorded steps
Handed ==
    {out.items[1]} \cup
    (IF inp.debug THEN { out.items[2].entries[i].img : i \in DOMAIN out.items[2].entries }
                  ELSE {})

\* C11: the denoise stage runs exactly when the Laplacian variance of the image
\* as decoded is < 100; at 100 or above it is skipped, the debug trace has no
\* denoised entry and every later stage works on the un-denoised grayscale.
C11_DenoiseGate ==
    PreDone =>
        LET px    == inp.image_bytes.px
            n     == Len(px)
            l     == Laplacian(px)
            s     == SumSeq(l)
            sq    == SumSeq([i \in 1..n |-> l[i] * l[i]])
            noisy == n * sq - s * s < 100 * n * n
            final == out.items[1].ops
        IN  /\ noisy <=> "bilateralFilter" \in Range(final)
            /\ noisy => SubSeq(final, 1, 2) = <<"cvtColor", "bilateralFilter">>
            /\ ~noisy => \A img \in Handed : "bilateralFilter" \notin Range(img.ops)
            /\ ~noisy => final[1] = "cvtColor" /\ final[2] \in {"CLAHE", "adaptiveThreshold"}
            /\ inp.debug =>
                 (("denoised" \in Range(StepNames(out.items[2].entries))) <=> noisy)

\* an image whose Laplacian variance is exactly 100 went through with debug on
\* and was not denoised
C11_Witness ==
    /\ PreDone
    /\ inp.debug
    /\ inp.image_bytes.px = <<80, 85>>
    /\ "denoised" \notin Range(StepNames(out.items[2].entries))
    /\ "bilateralFilter" \notin Range(out.items[1].ops)

\* the entry of the steps dict under a name
Entry(name) ==
    LET e == out.items[2].entries
    IN  e[CHOOSE i \in DOMAIN e : e[i].name = name].img

\* C12: with debug on, the steps dict holds, in this order, original,
\* grayscale, denoised (only if the denoise stage ran), contrast_enhanced (only
\* if the enhancement stage ran), binary, morphological, final; final is the
\* binary image from before the closing, not the morphological one; with debug
\* off no dict is returned.
C12_TraceOrder ==
    PreDone =>
        LET ran(o) == o \in Range(out.items[1].ops)
        IN  /\ ~inp.debug => out.items[2] = None
            /\ inp.debug =>
                 /\ out.items[2].t = "dict"
                 /\ StepNames(out.items[2].entries) =
                        <<"original", "grayscale">>
                        \o (IF ran("bilateralFilter") THEN <<"denoised">> ELSE <<>>)
                        \o (IF ran("CLAHE") THEN <<"contrast_enhanced">> ELSE <<>>)
                        \o <<"binary", "morphological", "final">>
                 /\ Entry("final") = Entry("binary")
                 /\ Entry("final") # Entry("morphological")
                 /\ Entry("morphological") = Apply(Entry("binary"), "morphologyEx")
                 /\ out.items[1] = Apply(Entry("binary"), "Image.fromarray")

\* a debug run in which both optional stages ran: all seven entries
C12_Witness ==
    /\ PreDone
    /\ inp.debug
    /\ Len(out.items[2].entries) = 7
    /\ Entry("final") = Entry("binary")

\* a run with debug off returned no dict
C12_WitnessNoDebug ==
    /\ PreDone
    /\ ~inp.debug
    /\ out.items[2] = None

(***************************************************************************)
(* Properties of the structuring step (SpecLLM).                           *)
(***************************************************************************)
StructuringOps == {"parse_with_llm", "main_parse_with_llm"}

HasDoc(c) == \E i \in DOMAIN c : c[i].t = "doc"

\* the JSON document the response text carries
DocOf(c) == c[CHOOSE i \in DOMAIN c : c[i].t = "doc"].v

CarriesObject(c) == HasDoc(c) /\ DocOf(c).t = "object"

IsFencedObject(c) ==
    CarriesObject(c) /\ c \in {Fenced(DocOf(c)), FencedJson(DocOf(c))}

Structure(f, llm, ocr_text, now) ==
    IF f = "parse_with_llm" THEN parse_with_llm(llm, ocr_text, now)
                            ELSE main_parse_with_llm(llm, ocr_text, now)

\* C6: a valid JSON object wrapped in ``` or ```json fences is unwrapped before
\* parsing: the structuring step returns what it returns for the bare JSON, and
\* not a malformed-response error.
C6_FencedJsonUnwrapped ==
    (op \in StructuringOps /\ ~inp.llm.raises /\ IsFencedObject(inp.llm.content)) =>
        /\ out.items = Structure(op, LlmAnswers(<<Doc(DocOf(inp.llm.content))>>),
                           inp.ocr_text, inp.now)
        /\ out.items[2] # Err("Failed to parse JSON response")

\* C7: in every record the structuring step returns, an amount or fee the LLM
\* emitted as a number or a string is held as the string form of that value,
\* and a null or absent amount or fee is not a string.
C7_AmountFeeAsString ==
    (op \in StructuringOps /\ out.items[1] # None) =>
        LET m == DocOf(inp.llm.content).m
            r == out.items[1].m
        IN  \A k \in {"amount", "fee"} :
              /\ (k \in DOMAIN m /\ m[k] = PyInt(1500)) =>
                    (k \in DOMAIN r /\ r[k] = PyStrV("1500"))
              /\ (k \in DOMAIN m /\ m[k] = PyStrV("1,500")) =>
                    (k \in DOMAIN r /\ r[k] = PyStrV("1,500"))
              /\ (k \notin DOMAIN m \/ m[k] = None) =>
                    (k \in DOMAIN r => r[k] = None)

\* what every record returned by extract_and_parse.parse_with_llm looks like
WellFormedRecord ==
    (op = "parse_with_llm" /\ out.items[1] # None) =>
        LET m == DocOf(inp.llm.content).m
            r == out.items[1].m
        IN  /\ out.items[2] = None
            /\ Len(SchemaFields) = 15
            /\ Cardinality(Range(SchemaFields)) = 15
            /\ DOMAIN r = Range(SchemaFields) \cup MetaFields
            /\ \A k \in Range(SchemaFields) :
                 /\ r[k].t \in {"str", "None"}
                 /\ k \notin DOMAIN m => r[k] = None
            /\ r["raw_ocr_text"] = PyStrV(inp.ocr_text)
            /\ r["extraction_timestamp"].t = "str"

\* the schema fields of the LLM object whose value is neither a string nor null
BadFields(c) ==
    IF CarriesObject(c)
    THEN { k \in Range(SchemaFields) \cap DOMAIN DocOf(c).m :
             DocOf(c).m[k].t \notin {"str", "None"} }
    ELSE {}

OcrOps == {"extract_text_easyocr", "extract_text_easyocr_with_debug",
           "main_extract_text_easyocr", "extract_text_tesseract"}

PipelineOps == OcrOps \cup {"main"}

Called(name) == { i \in DOMAIN trace : trace[i].call = name }

\* C1: however many OCR calls the process has served, failed ones included,
\* at most one easyocr.Reader has been constructed.
C1_ReaderConstructedOnce == ctor_count <= 1

\* the run reported an error and produced no text
EndedInError ==
    CASE out.t = "tuple" -> out.items[Len(out.items)] # None /\ out.items[1] = None
      [] out.t = "page"  -> out.status = "ocr_error"
      [] OTHER           -> FALSE

\* C2: on zero-byte or corrupt image bytes the run ends in an error, and no
\* Reader construction, no readtext and no LLM completion call is made on it.
C2_DecodeErrorShortCircuits ==
    (op \in PipelineOps /\ inp.image_bytes.kind \in {"empty", "corrupt"}) =>
        /\ EndedInError
        /\ Called("easyocr.Reader") = {}
        /\ Called("readtext") = {}
        /\ Called("chat.completions.create") = {}

\* C3: in an application run, save_to_json is called only after parse_with_llm
\* has returned a record and no error, and with that record; when the LLM
\* response is not JSON, parse_with_llm returns no record and a "Failed to
\* parse JSON response" error, save_to_json is not called and the history file
\* is as the run found it.
C3_SaveOnlyAfterParse ==
    (op = "main" /\ out.t = "page") =>
        /\ \A i \in Called("save_to_json") :
             /\ i > 1
             /\ trace[i - 1].call = "chat.completions.create"
             /\ trace[i - 1].ok
             /\ out.parse.items[1] # None
             /\ out.parse.items[2] = None
             /\ trace[i].arg = out.parse.items[1]
        /\ Called("save_to_json") = {} => file = inp.existing
        /\ out.status = "parse_error" =>
             /\ out.parse.items[1] = None
             /\ out.parse.items[2] # None
             /\ Called("save_to_json") = {}
        /\ \A i \in Called("chat.completions.create") :
             (trace[i].ok /\ ~HasDoc(trace[i].arg.content)) =>
                /\ out.status = "parse_error"
                /\ out.parse.items[2] = Err("Failed to parse JSON response")

\* the LLM was asked, answered, the answer was not JSON, and nothing was saved
\* on top of a history that already held a record
C3_Witness ==
    /\ op = "main"
    /\ out.t = "page"
    /\ out.status = "parse_error"
    /\ out.parse.items[2] = Err("Failed to parse JSON response")
    /\ \E i \in Called("chat.completions.create") :
          trace[i].ok /\ trace[i].arg.content = <<Prose>>
    /\ file.kind = "array"
    /\ Len(file.items) = 1

StageOps == OcrOps \cup {"preprocess_image"}

\* C4: every stage returns a (result, error) tuple with exactly one side set:
\* it never raises and never returns something that is no such tuple.  (The
\* tuple's first item is read as the result and its last as the error, so the
\* (text, steps, error) of extract_text_easyocr_with_debug counts as one.)
C4_StagesReturnPairs ==
    op \in StageOps =>
        /\ out.t = "tuple"
        /\ (out.items[1] = None) # (out.items[Len(out.items)] = None)

\* C5: the image given to readtext is what preprocess_image returns for the
\* run's bytes, and preprocess_image has run before readtext is called.
C5_OcrGetsPreprocessedImage ==
    op \in PipelineOps =>
        \A i \in Called("readtext") :
            /\ trace[i].arg = preprocess_image(inp.image_bytes, FALSE).items[1]
            /\ \E j \in Called("preprocess_image") : j < i

====
